---- MODULE Spec2Model ----
(***************************************************************************)
(* The ngrok tunneling fragment of configuration.go:                       *)
(*   TunnelingConfiguration.isNgrokRunning  (health probe)                 *)
(*   TunnelingConfiguration.startTunnel     (Open)                         *)
(*   TunnelingConfiguration.stopTunnel      (Close)                        *)
(*   TunnelingConfiguration.createTunnel    (create-tunnel request)        *)
(* Each caller goroutine p owns one Tunnel value and one publicAddr        *)
(* variable, and calls startTunnel / stopTunnel on it.  The methods hold   *)
(* no lock and keep no record of their own: everything they remember is    *)
(* what they write through the publicAddr pointer.                         *)
(* SpecConfig covers the Configuration getters GetVHost and GetLogLevel.   *)
(***************************************************************************)
EXTENDS Integers, Sequences, FiniteSets, TLC

\* ------------------------------------------------------------------ bounds

\* Calls (startTunnel or stopTunnel) the callers make in total.
MaxCalls == 2

\* ------------------------------------------------------- program constants

StatusNoContent == 204

DefaultBin == "ngrok"

NgrokEnvName == "NGROK"

ErrBinNotFound ==
  "\"ngrok\" executable not found, please install it from: https://ngrok.com/download"

\* ------------------------------------------------------------ value spaces

\* The caller goroutines.
Procs == {1, 2}

\* Tunnel names: two a url can carry, and one whose percent-escape the url
\* parser refuses.
TunnelNames == {"MyApp", "web"}

BadName == "%zz"

\* The Addr every tunnel exposes.
LocalAddr == "localhost:8080"

WebInterfaceURL == "http://127.0.0.1:4040"

\* The nil error.
NoErr == "<nil>"

\* Errors of the operating system and of the http transport.
ErrConnRefused == "dial tcp 127.0.0.1:4040: connect: connection refused"

ErrExit == "exit status 1"

ErrPipe == "pipe: too many open files"

ErrExec == "fork/exec: permission denied"

ErrEOF == "EOF"

ErrRead == "read |0: file already closed"

ErrDecode == "invalid character '<' looking for beginning of value"

ErrEscape == "invalid URL escape \"%zz\""

\* What answers on the web interface address: nothing (connection refused),
\* a server that answers, or a server that redirects without end.
WebIfStates == {"down", "up", "redirloop"}

\* The bytes of the agent's standard output, scaled down: 1 2 stands for the
\* readiness phrase; 2 1, 1 1 and 2 2 are output without it.
Bytes == {1, 2}

\* okText := []byte("client session established")
okText == <<1, 2>>

\* p := make([]byte, 256), scaled down with the phrase.
BufLen == 2

\* Every p[:n] a single stdout.Read can deliver.
Chunks == UNION {[1..n -> Bytes] : n \in 0..BufLen}

\* What a read that reports an error delivers with it: nothing, or the phrase.
ErrChunks == {<<>>, okText}

\* ----------------------------------------------------------- pure helpers

\* bytes.Contains(b, sub)
Contains(b, sub) ==
  \E i \in 0..(Len(b) - Len(sub)) :
    \A j \in 1..Len(sub) : b[i + j] = sub[j]

\* http.Get(tc.WebInterface) with the default client: resp is whether a
\* response object came back.  A connection failure returns (nil, err); a
\* failed redirect policy (more than 10 redirects) returns the last response
\* AND an error.
httpGet(w) ==
  CASE w = "up"        -> [resp |-> TRUE,  err |-> NoErr]
    [] w = "redirloop" -> [resp |-> TRUE,  err |-> "stopped after 10 redirects"]
    [] OTHER           -> [resp |-> FALSE, err |-> ErrConnRefused]

\* isNgrokRunning: resp.Body.Close() is called before err is looked at, so
\* a nil resp is dereferenced: "panic".  Otherwise err == nil.
isNgrokRunning(w) ==
  LET r == httpGet(w) IN
    IF ~r.resp THEN "panic"
    ELSE IF r.err = NoErr THEN "true" ELSE "false"

\* The branch taken the wrong way round: launch when the probe was answered.
NeedsLaunch_Inverted(running) == running = "true"

\* if !tc.isNgrokRunning() { ... launch ... }
NeedsLaunch(running) == running = "false"

\* Binary resolution.  onPath: exec.LookPath("ngrok") succeeded; env: the
\* value of os.LookupEnv("NGROK"), "" with found = FALSE when unset.
\* The resolution, were the environment variable consulted before PATH.
ResolveBin_EnvFirst(bin, onPath, envFound, envVal) ==
  IF bin = "" THEN
    IF ~envFound THEN
      IF ~onPath
      THEN [err |-> ErrBinNotFound, ngrokBin |-> DefaultBin,
            looked |-> <<"LookupEnv", "", "LookPath", "">>]
      ELSE [err |-> NoErr, ngrokBin |-> DefaultBin,
            looked |-> <<"LookupEnv", "", "LookPath", DefaultBin>>]
    ELSE [err |-> NoErr, ngrokBin |-> envVal, looked |-> <<"LookupEnv", envVal>>]
  ELSE [err |-> NoErr, ngrokBin |-> bin, looked |-> <<>>]

\* looked: the lookups made, in order, each followed by what it found.
ResolveBin(bin, onPath, envFound, envVal) ==
  IF bin = "" THEN
    IF ~onPath THEN
      IF ~envFound
      THEN [err |-> ErrBinNotFound, ngrokBin |-> DefaultBin,
            looked |-> <<"LookPath", "", "LookupEnv", "">>]
      ELSE [err |-> NoErr, ngrokBin |-> envVal,
            looked |-> <<"LookPath", "", "LookupEnv", envVal>>]
    ELSE [err |-> NoErr, ngrokBin |-> DefaultBin, looked |-> <<"LookPath", DefaultBin>>]
  ELSE [err |-> NoErr, ngrokBin |-> bin, looked |-> <<>>]

\* The authtoken run, were it tried again after a failure.
AuthNext_Retry(err) == IF err # NoErr THEN "auth" ELSE "spawn"

\* The authtoken run, were its error dropped.
AuthNext_Ignore(err) == "spawn"

\* if err != nil { return err } after cmd.Run() of the authtoken command.
AuthNext(err) == IF err # NoErr THEN "fail" ELSE "spawn"

\* exec.Command(ngrokBin, "authtoken", tc.AuthToken)
AuthCmd(ngrokBin, token) == <<ngrokBin, "authtoken", token>>

\* exec.Command(ngrokBin, "start", "-none", "-log", "stdout") plus the region.
StartCmd(ngrokBin, region) ==
  LET base == <<ngrokBin, "start", "-none", "-log", "stdout">> IN
    IF region # "" THEN base \o <<"-region", region>> ELSE base

\* tunnelAPIRequest := ngrokTunnel{Name, Addr, Proto: "http", BindTLS: true}
TunnelAPIRequest(name, addr) ==
  [name |-> name, addr |-> addr, proto |-> "http", auth |-> "", bind_tls |-> TRUE]

\* fmt.Sprintf("%s/api/tunnels", tc.WebInterface)
CreateURL(webInterface) == webInterface \o "/api/tunnels"

\* fmt.Sprintf("%s/api/tunnels/%s", tc.WebInterface, t.Name)
StopURL(webInterface, name) == webInterface \o "/api/tunnels/" \o name

\* http.NewRequest parses the url: a bad percent-escape is refused.
NewRequestErr(url) ==
  IF url = WebInterfaceURL \o "/api/tunnels/" \o BadName THEN ErrEscape ELSE NoErr

\* A response body: undecodable, or a JSON object given as a function from
\* the keys it carries to their string values ("err" is details.err).  An
\* error field is absent or non-empty; public_url may also be present and empty.
JSONKeys == {"public_url", "msg", "err"}

URLs == {"https://abc123.example.com", "https://def456.example.com"}

FieldValues(k) ==
  CASE k = "public_url" -> {""} \cup URLs
    [] k = "msg"        -> {"tunnel session not ready yet"}
    [] OTHER            -> {"failed to bind: address in use"}

AllFieldValues == UNION {FieldValues(k) : k \in JSONKeys}

\* Every set of keys; next to an error field the public_url is the first one.
JSONObjects ==
  UNION {
    {f \in [ks -> AllFieldValues] :
       /\ \A k \in ks : f[k] \in FieldValues(k)
       /\ (ks # {"public_url"} /\ "public_url" \in ks) => f["public_url"] = "https://abc123.example.com"}
    : ks \in SUBSET JSONKeys }

BadBody == [decodable |-> FALSE, json |-> [k \in {} |-> ""]]

Bodies == {BadBody} \cup {[decodable |-> TRUE, json |-> o] : o \in JSONObjects}

\* A key of the JSON object, the zero value when the object lacks it.
Field(o, k) == IF k \in DOMAIN o THEN o[k] ELSE ""

\* The decoder, were PublicAddr tagged with a key the agent does not send.
Decode_WrongKey(body) ==
  IF ~body.decodable
  THEN [err |-> ErrDecode,
        apiResponse |-> [PublicAddr |-> "", Details |-> [ErrorText |-> ""], ErrMsg |-> ""]]
  ELSE [err |-> NoErr,
        apiResponse |-> [PublicAddr |-> Field(body.json, "url"),
                         Details    |-> [ErrorText |-> Field(body.json, "err")],
                         ErrMsg     |-> Field(body.json, "msg")]]

\* json.NewDecoder(resp.Body).Decode(&apiResponse) into publicAddrOrErrResp.
Decode(body) ==
  IF ~body.decodable
  THEN [err |-> ErrDecode,
        apiResponse |-> [PublicAddr |-> "", Details |-> [ErrorText |-> ""], ErrMsg |-> ""]]
  ELSE [err |-> NoErr,
        apiResponse |-> [PublicAddr |-> Field(body.json, "public_url"),
                         Details    |-> [ErrorText |-> Field(body.json, "err")],
                         ErrMsg     |-> Field(body.json, "msg")]]

\* details.err looked at before msg.
createTunnelResult_ErrFirst(body, old) ==
  LET d == Decode(body) IN
    IF d.err # NoErr THEN [err |-> d.err, publicAddr |-> old]
    ELSE IF d.apiResponse.Details.ErrorText # ""
      THEN [err |-> d.apiResponse.Details.ErrorText, publicAddr |-> old]
    ELSE IF d.apiResponse.ErrMsg # ""
      THEN [err |-> d.apiResponse.ErrMsg, publicAddr |-> old]
    ELSE [err |-> NoErr, publicAddr |-> d.apiResponse.PublicAddr]

\* *publicAddr assigned right after decoding, before the error fields are read.
createTunnelResult_StoreFirst(body, old) ==
  LET d == Decode(body) IN
    IF d.err # NoErr THEN [err |-> d.err, publicAddr |-> old]
    ELSE IF d.apiResponse.ErrMsg # ""
      THEN [err |-> d.apiResponse.ErrMsg, publicAddr |-> d.apiResponse.PublicAddr]
    ELSE IF d.apiResponse.Details.ErrorText # ""
      THEN [err |-> d.apiResponse.Details.ErrorText, publicAddr |-> d.apiResponse.PublicAddr]
    ELSE [err |-> NoErr, publicAddr |-> d.apiResponse.PublicAddr]

\* createTunnel after the POST came back with `body`: the error it returns
\* and the value *publicAddr holds afterwards (old: its value before).
createTunnelResult(body, old) ==
  LET d == Decode(body) IN
    IF d.err # NoErr THEN [err |-> d.err, publicAddr |-> old]
    ELSE IF d.apiResponse.ErrMsg # ""
      THEN [err |-> d.apiResponse.ErrMsg, publicAddr |-> old]
    ELSE IF d.apiResponse.Details.ErrorText # ""
      THEN [err |-> d.apiResponse.Details.ErrorText, publicAddr |-> old]
    ELSE [err |-> NoErr, publicAddr |-> d.apiResponse.PublicAddr]

\* HTTP statuses the POST can come back with: a successful and a failed one.
PostStatuses == {201, 502}

\* createTunnel, were it to reject a response whose status is not 2xx.
createTunnel_CheckStatus(code, body, old) ==
  IF code \notin 200..299
  THEN [err |-> "unexpected status code", publicAddr |-> old]
  ELSE createTunnelResult(body, old)

\* createTunnel on a response of status `code` with `body`: resp.StatusCode
\* is never read.
createTunnel(code, body, old) == createTunnelResult(body, old)

\* HTTP statuses a DELETE can come back with.
Statuses == {200, 204, 404, 500}

\* Every 2xx status taken for success.
stopTunnelResult_Any2xx(code) ==
  IF code < 200 \/ code > 299
  THEN "stop return an unexpected status code: " \o ToString(code)
  ELSE NoErr

\* stopTunnel, were it to end the agent process after the DELETE.
stopTunnelRequests_KillAgent(url) ==
  <<[kind |-> "DELETE", what |-> <<url>>], [kind |-> "kill", what |-> <<DefaultBin>>]>>

\* Everything stopTunnel sends or runs: the one DELETE.
stopTunnelRequests(url) == <<[kind |-> "DELETE", what |-> <<url>>]>>

\* stopTunnel after the DELETE came back with resp.StatusCode = code.
stopTunnelResult(code) ==
  IF code # StatusNoContent
  THEN "stop return an unexpected status code: " \o ToString(code)
  ELSE NoErr

\* ------------------------------------------------------------------ state

VARIABLES
  tc,          \* the TunnelingConfiguration: Bin, AuthToken, Region, WebInterface
  t,           \* t[p]: the Tunnel caller p passes (Name, Addr)
  publicAddr,  \* publicAddr[p]: caller p's variable behind the *string
  pc,          \* pc[p]: where caller p is inside startTunnel / stopTunnel
  ngrokBin,    \* ngrokBin[p]: the local of startTunnel
  ret,         \* ret[p]: the error the finished call returned
  calls,       \* calls made so far, by all callers
  spawned,     \* agent processes started by cmd.Start() so far
  crashed,     \* the hosting process died of a panic
  events,      \* events[p]: the requests and commands of the current call, in order
  before,      \* before[p]: publicAddr[p] and opened[p] when the current call began,
               \* and whether p's call before it was an Open that failed in the
               \* agent's startup
  lastResp,    \* the response received last: by whom, its body or status
  opened,      \* the last startTunnel of p returned nil, no stopTunnel since
  stream,      \* stream[p]: what p's current call has read without error from the
               \* agent it started: whether the readiness phrase has gone by, and
               \* how much of it is begun
  conf,        \* the Configuration: vhost, LogLevel
  got          \* the getter called last: its name, its receiver, what it returned

vars == <<tc, t, publicAddr, pc, ngrokBin, ret, calls, spawned, crashed,
          events, before, lastResp, opened, stream, conf, got>>

\* The configurations: Bin, AuthToken and Region each set and unset.
Configs ==
  { [Bin |-> "",           AuthToken |-> "",    Region |-> "",   WebInterface |-> WebInterfaceURL],
    [Bin |-> "",           AuthToken |-> "tok", Region |-> "eu", WebInterface |-> WebInterfaceURL],
    [Bin |-> "/opt/ngrok", AuthToken |-> "tok", Region |-> "",   WebInterface |-> WebInterfaceURL] }

Tunnel(name) == [Name |-> name, Addr |-> LocalAddr]

\* The callers' tunnels: the same name, two names, a name no url can carry.
Tunnels ==
  { [p \in Procs |-> Tunnel("MyApp")],
    [p \in Procs |-> IF p = 1 THEN Tunnel("MyApp") ELSE Tunnel("web")],
    [p \in Procs |-> Tunnel(BadName)] }

\* The log levels LogLevel documents.
LogLevels == {"disable", "fatal", "error", "warn", "info", "debug"}

VHosts == {"localhost:8080", "example.com:80"}

\* DefaultConfiguration(): LogLevel "info", no vhost before Run/Listen.
DefaultConfiguration == [vhost |-> "", LogLevel |-> "info"]

NoGot == [fn |-> "none", c |-> DefaultConfiguration, val |-> ""]

\* func (c Configuration) GetVHost() string
GetVHost(c) == c.vhost

\* func (c Configuration) GetLogLevel() string
GetLogLevel(c) == c.vhost

NoStream == [tail |-> <<>>, marked |-> FALSE]

\* The last n bytes of b.
LastBytes(b, n) == IF Len(b) <= n THEN b ELSE SubSeq(b, Len(b) - n + 1, Len(b))

\* The longest beginning of the readiness phrase that b ends with, the whole
\* phrase left out.
RECURSIVE PhraseBegunUpTo(_, _)
PhraseBegunUpTo(b, k) ==
  IF k = 0 THEN <<>>
  ELSE IF LastBytes(b, k) = SubSeq(okText, 1, k) THEN SubSeq(okText, 1, k)
  ELSE PhraseBegunUpTo(b, k - 1)

PhraseBegun(b) == PhraseBegunUpTo(b, Len(okText) - 1)

\* The agent's output after one more chunk: whether the phrase has gone by,
\* and how much of it the output ends with.
StreamAfter(st, chunk) ==
  LET all == st.tail \o chunk
  IN  [tail |-> PhraseBegun(all), marked |-> st.marked \/ Contains(all, okText)]

NoResp == [by |-> 0, kind |-> "none", body |-> BadBody, status |-> 0]

Init ==
  /\ tc \in Configs
  /\ t \in Tunnels
  /\ publicAddr = [p \in Procs |-> ""]
  /\ pc = [p \in Procs |-> "idle"]
  /\ ngrokBin = [p \in Procs |-> ""]
  /\ ret = [p \in Procs |-> NoErr]
  /\ calls = 0
  /\ spawned = 0
  /\ crashed = FALSE
  /\ events = [p \in Procs |-> <<>>]
  /\ before = [p \in Procs |-> [addr |-> "", opened |-> FALSE, failed |-> FALSE]]
  /\ lastResp = NoResp
  /\ opened = [p \in Procs |-> FALSE]
  /\ stream = [p \in Procs |-> NoStream]
  /\ conf = DefaultConfiguration
  /\ got = NoGot

\* ---------------------------------------------------------------- actions

Ev(kind, what) == [kind |-> kind, what |-> what]

\* The current call of p returns e: `done` is "openDone" or "closeDone".
Return(p, e, done) ==
  /\ pc' = [pc EXCEPT ![p] = done]
  /\ ret' = [ret EXCEPT ![p] = e]
  /\ ngrokBin' = [ngrokBin EXCEPT ![p] = ""]

\* The call p has finished was a startTunnel that returned an error from the
\* start of the agent or from the readiness loop.
FailedInStartup(p) ==
  /\ pc[p] = "openDone" /\ ret[p] # NoErr
  /\ \E i \in 1..Len(events[p]) : events[p][i].kind = "start"
  /\ \A i \in 1..Len(events[p]) : events[p][i].kind # "POST"

\* Caller p enters startTunnel(t[p], &publicAddr[p]).
CallStart(p) ==
  /\ ~crashed
  /\ pc[p] \in {"idle", "openDone", "closeDone"}
  /\ calls < MaxCalls
  /\ calls' = calls + 1
  /\ pc' = [pc EXCEPT ![p] = "probe"]
  /\ ret' = [ret EXCEPT ![p] = NoErr]
  /\ events' = [events EXCEPT ![p] = <<>>]
  /\ lastResp' = IF lastResp.by = p THEN NoResp ELSE lastResp
  /\ before' = [before EXCEPT
       ![p] = [addr |-> publicAddr[p], opened |-> opened[p], failed |-> FailedInStartup(p)]]
  /\ stream' = [stream EXCEPT ![p] = NoStream]
  /\ UNCHANGED <<conf, got, tc, t, publicAddr, ngrokBin, spawned, crashed, opened>>

\* if !tc.isNgrokRunning(): the GET, the Body.Close(), the branch.
Probe(p) ==
  /\ ~crashed
  /\ pc[p] = "probe"
  /\ \E webif \in WebIfStates :
     LET running == isNgrokRunning(webif) IN
     /\ events' = [events EXCEPT ![p] = Append(@, Ev("GET", <<tc.WebInterface, running>>))]
     /\ IF running = "panic"
        THEN /\ crashed' = TRUE
             /\ pc' = [pc EXCEPT ![p] = "panic"]
        ELSE /\ crashed' = crashed
             /\ pc' = [pc EXCEPT ![p] = IF NeedsLaunch(running) THEN "resolve" ELSE "create"]
  /\ UNCHANGED <<conf, got, stream, tc, t, publicAddr, ngrokBin, ret, calls, spawned,
                 before, lastResp, opened>>

\* The binary resolution of startTunnel.
Resolve(p) ==
  /\ ~crashed
  /\ pc[p] = "resolve"
  /\ \E onPath \in BOOLEAN, envVal \in {"", "/env/ngrok"} :
       LET r == ResolveBin(tc.Bin, onPath, envVal # "", envVal) IN
         /\ events' = [events EXCEPT ![p] = Append(@, Ev("resolve", r.looked))]
         /\ IF r.err # NoErr
            THEN Return(p, r.err, "openDone")
            ELSE /\ ngrokBin' = [ngrokBin EXCEPT ![p] = r.ngrokBin]
                 /\ pc' = [pc EXCEPT ![p] = IF tc.AuthToken # "" THEN "auth" ELSE "spawn"]
                 /\ ret' = ret
  /\ UNCHANGED <<conf, got, stream, tc, t, publicAddr, calls, spawned, crashed,
                 before, lastResp, opened>>

\* ngrok authtoken <token>, run to completion.
Auth(p) ==
  /\ ~crashed
  /\ pc[p] = "auth"
  /\ \E err \in {NoErr, ErrExit} :
       /\ events' = [events EXCEPT
            ![p] = @ \o <<Ev("run", AuthCmd(ngrokBin[p], tc.AuthToken)), Ev("exit", <<err>>)>>]
       /\ IF AuthNext(err) = "fail"
          THEN Return(p, err, "openDone")
          ELSE /\ pc' = [pc EXCEPT ![p] = AuthNext(err)]
               /\ UNCHANGED <<ret, ngrokBin>>
  /\ UNCHANGED <<conf, got, stream, tc, t, publicAddr, calls, spawned, crashed,
                 before, lastResp, opened>>

\* cmd.StdoutPipe() and cmd.Start().
Spawn(p) ==
  /\ ~crashed
  /\ pc[p] = "spawn"
  /\ \E pipeErr \in {NoErr, ErrPipe}, startErr \in {NoErr, ErrExec} :
       IF pipeErr # NoErr
       THEN /\ Return(p, pipeErr, "openDone")
            /\ UNCHANGED <<spawned, events>>
       ELSE /\ events' = [events EXCEPT
                 ![p] = Append(@, Ev("start", StartCmd(ngrokBin[p], tc.Region)))]
            /\ IF startErr # NoErr
               THEN /\ Return(p, startErr, "openDone")
                    /\ spawned' = spawned
               ELSE /\ spawned' = spawned + 1
                    /\ pc' = [pc EXCEPT ![p] = "read"]
                    /\ UNCHANGED <<ret, ngrokBin>>
  /\ UNCHANGED <<conf, got, stream, tc, t, publicAddr, calls, crashed, before,
                 lastResp, opened>>

\* The readiness loop, were it to read on after an error.
readOutcome_SkipError(chunk, err) ==
  IF Contains(chunk, okText) /\ err = NoErr THEN "ready" ELSE "again"

\* The readiness loop, were it to scan the chunk before looking at the error.
readOutcome_ScanFirst(chunk, err) ==
  IF Contains(chunk, okText) THEN "ready"
  ELSE IF err # NoErr THEN "fail" ELSE "again"

\* One turn of the readiness loop on a read that delivered chunk and err.
readOutcome(chunk, err) ==
  IF err # NoErr THEN "fail"
  ELSE IF Contains(chunk, okText) THEN "ready" ELSE "again"

\* Whether the bytes p[:n] of one read hold the whole phrase.
Delivered(chunk) == IF Contains(chunk, okText) THEN "phrase" ELSE ""

\* n, err := stdout.Read(p) and the rest of the loop body.
ReadStdout(p) ==
  /\ ~crashed
  /\ pc[p] = "read"
  /\ \E err \in {NoErr, ErrEOF, ErrRead} :
     \E chunk \in IF err = NoErr THEN Chunks ELSE ErrChunks :
       LET o == readOutcome(chunk, err) IN
         /\ events' = [events EXCEPT
              ![p] = IF err # NoErr THEN Append(@, Ev("read", <<err, Delivered(chunk)>>))
                     ELSE @]
         /\ stream' = [stream EXCEPT
              ![p] = CASE err # NoErr -> [@ EXCEPT !.tail = <<>>]
                       [] o = "ready" -> [tail |-> <<>>, marked |-> TRUE]
                       [] OTHER       -> StreamAfter(@, chunk)]
         /\ CASE o = "fail"  -> Return(p, err, "openDone")
              [] o = "ready" -> /\ pc' = [pc EXCEPT ![p] = "create"]
                                /\ UNCHANGED <<ret, ngrokBin>>
              [] OTHER       -> UNCHANGED <<pc, ret, ngrokBin>>
  /\ UNCHANGED <<conf, got, tc, t, publicAddr, calls, spawned, crashed,
                 before, lastResp, opened>>

\* What the http transport can answer: with nothing listening, only an error.
TransportErrs(webif) == IF webif = "down" THEN {ErrConnRefused} ELSE {NoErr, ErrConnRefused}

\* return tc.createTunnel(tunnelAPIRequest, publicAddr)
Create(p) ==
  /\ ~crashed
  /\ pc[p] = "create"
  /\ LET req == TunnelAPIRequest(t[p].Name, t[p].Addr) IN
       events' = [events EXCEPT
         ![p] = Append(@, Ev("POST", <<CreateURL(tc.WebInterface), req.name, req.addr>>))]
  /\ \E webif \in WebIfStates : \E err \in TransportErrs(webif) :
       IF err # NoErr
       THEN /\ Return(p, err, "openDone")
            /\ lastResp' = [NoResp EXCEPT !.by = p, !.kind = "failed"]
            /\ UNCHANGED <<publicAddr, opened>>
       ELSE \E code \in PostStatuses, body \in Bodies :
              LET r == createTunnel(code, body, publicAddr[p]) IN
                /\ Return(p, r.err, "openDone")
                /\ publicAddr' = [publicAddr EXCEPT ![p] = r.publicAddr]
                /\ lastResp' = [NoResp EXCEPT !.by = p, !.kind = "body", !.body = body,
                                              !.status = code]
                /\ opened' = [opened EXCEPT ![p] = IF r.err = NoErr THEN TRUE ELSE @]
  /\ UNCHANGED <<conf, got, stream, tc, t, calls, spawned, crashed, before>>

\* Caller p enters stopTunnel(t[p]).
CallStop(p) ==
  /\ ~crashed
  /\ pc[p] \in {"idle", "openDone", "closeDone"}
  /\ calls < MaxCalls
  /\ calls' = calls + 1
  /\ pc' = [pc EXCEPT ![p] = "delete"]
  /\ ret' = [ret EXCEPT ![p] = NoErr]
  /\ events' = [events EXCEPT ![p] = <<>>]
  /\ lastResp' = IF lastResp.by = p THEN NoResp ELSE lastResp
  /\ before' = [before EXCEPT
       ![p] = [addr |-> publicAddr[p], opened |-> opened[p], failed |-> FailedInStartup(p)]]
  /\ stream' = [stream EXCEPT ![p] = NoStream]
  /\ UNCHANGED <<conf, got, tc, t, publicAddr, ngrokBin, spawned, crashed, opened>>

\* The body of stopTunnel: build the request, send it, look at the status.
Delete(p) ==
  /\ ~crashed
  /\ pc[p] = "delete"
  /\ LET url == StopURL(tc.WebInterface, t[p].Name) IN
       IF NewRequestErr(url) # NoErr
       THEN /\ Return(p, NewRequestErr(url), "closeDone")
            /\ UNCHANGED <<events, lastResp>>
       ELSE /\ events' = [events EXCEPT ![p] = @ \o stopTunnelRequests(url)]
            /\ \E webif \in WebIfStates : \E err \in TransportErrs(webif) :
                 IF err # NoErr
                 THEN /\ Return(p, err, "closeDone")
                      /\ lastResp' = [NoResp EXCEPT !.by = p, !.kind = "failed"]
                 ELSE \E code \in Statuses :
                        /\ Return(p, stopTunnelResult(code), "closeDone")
                        /\ lastResp' = [NoResp EXCEPT !.by = p, !.kind = "status", !.status = code]
  /\ opened' = [opened EXCEPT ![p] = FALSE]
  /\ UNCHANGED <<conf, got, stream, tc, t, publicAddr, calls, spawned, crashed, before>>

Next ==
  \/ \E p \in Procs : CallStart(p)
  \/ \E p \in Procs : Probe(p)
  \/ \E p \in Procs : Resolve(p)
  \/ \E p \in Procs : Auth(p)
  \/ \E p \in Procs : Spawn(p)
  \/ \E p \in Procs : ReadStdout(p)
  \/ \E p \in Procs : Create(p)
  \/ \E p \in Procs : CallStop(p)
  \/ \E p \in Procs : Delete(p)

Spec == Init /\ [][Next]_vars

\* Every caller that can take its next step takes it, and a read the agent's
\* output can complete completes.
Fairness ==
  \A p \in Procs :
    /\ WF_vars(Probe(p)) /\ WF_vars(Resolve(p)) /\ WF_vars(Auth(p)) /\ WF_vars(Spawn(p))
    /\ WF_vars(ReadStdout(p)) /\ WF_vars(Create(p)) /\ WF_vars(Delete(p))

SpecLive == Spec /\ Fairness

\* ----------------------------------------------------- the Configuration

TunnelVars == <<tc, t, publicAddr, pc, ngrokBin, ret, calls, spawned, crashed,
                events, before, lastResp, opened, stream>>

\* WithLogLevel(level): app.config.LogLevel = level
WithLogLevel ==
  /\ \E level \in LogLevels \cup {""} : conf' = [conf EXCEPT !.LogLevel = level]
  /\ UNCHANGED <<got, TunnelVars>>

\* Run/Listen sets the private vhost, once.
SetVHost ==
  /\ conf.vhost = ""
  /\ \E v \in VHosts : conf' = [conf EXCEPT !.vhost = v]
  /\ UNCHANGED <<got, TunnelVars>>

CallGetVHost ==
  /\ got' = [fn |-> "GetVHost", c |-> conf, val |-> GetVHost(conf)]
  /\ UNCHANGED <<conf, TunnelVars>>

CallGetLogLevel ==
  /\ got' = [fn |-> "GetLogLevel", c |-> conf, val |-> GetLogLevel(conf)]
  /\ UNCHANGED <<conf, TunnelVars>>

NextConfig == WithLogLevel \/ SetVHost \/ CallGetVHost \/ CallGetLogLevel

SpecConfig == Init /\ [][NextConfig]_vars

\* The shape of the state.
TypeOK ==
  /\ tc \in Configs
  /\ \A p \in Procs : t[p].Name \in TunnelNames \cup {BadName}
  /\ publicAddr \in [Procs -> {""} \cup URLs]
  /\ pc \in [Procs -> {"idle", "probe", "resolve", "auth", "spawn", "read", "create",
                       "openDone", "delete", "closeDone", "panic"}]
  /\ ngrokBin \in [Procs -> {"", DefaultBin, "/env/ngrok", "/opt/ngrok"}]
  /\ calls \in 0..MaxCalls
  /\ spawned \in 0..calls
  /\ crashed \in BOOLEAN
  /\ crashed <=> \E p \in Procs : pc[p] = "panic"
  /\ opened \in [Procs -> BOOLEAN]
  /\ lastResp.by \in Procs \cup {0}
  /\ \A p \in Procs : stream[p].marked \in BOOLEAN /\ Len(stream[p].tail) < Len(okText)
  /\ conf.LogLevel \in LogLevels \cup {""} /\ conf.vhost \in VHosts \cup {""}
  /\ got.fn \in {"none", "GetVHost", "GetLogLevel"}

\* ----------------------------------------------------------------- claims

\* The kinds of the events of p's current call, in order.
Kinds(p) == [i \in 1..Len(events[p]) |-> events[p][i].kind]

HasEvent(p, kind) == \E i \in 1..Len(events[p]) : events[p][i].kind = kind

\* p is inside the launch steps of startTunnel.
InLaunch(p) == pc[p] \in {"resolve", "auth", "spawn", "read"}

\* What the probe of p's current call answered ("" before the probe).
ProbeAnswer(p) ==
  IF events[p] # <<>> /\ events[p][1].kind = "GET" THEN events[p][1].what[2] ELSE ""

\* The JSON object of the response p's finished call decoded.
GotBody(p) == lastResp.by = p /\ lastResp.kind = "body" /\ lastResp.body.decodable

\* C1: concurrent Opens for different tunnel names never have two spawned
\* agents in flight: no two callers wait on the output of an agent they started.
C1_OneSpawnInFlight ==
  \A p, q \in Procs :
    (p # q /\ t[p].Name # t[q].Name) => ~(pc[p] = "read" /\ pc[q] = "read")

\* C2: the health probe never crashes its caller: a failed GET makes Open go
\* on to the launch steps.
C2_ProbeNeverCrashes ==
  ~crashed /\ \A p \in Procs : pc[p] # "panic"

C4_OpenHasAddress ==
  \A p \in Procs : opened[p] => publicAddr[p] # ""

\* C5: the decoded create-tunnel response is read in a fixed order: msg, then
\* details.err, then public_url.
C5_DecodePrecedence ==
  \A p \in Procs :
    (pc[p] = "openDone" /\ GotBody(p)) =>
      LET o == lastResp.body.json
          msg == IF "msg" \in DOMAIN o THEN o["msg"] ELSE ""
          det == IF "err" \in DOMAIN o THEN o["err"] ELSE ""
          url == IF "public_url" \in DOMAIN o THEN o["public_url"] ELSE ""
      IN /\ msg # "" => ret[p] = msg
         /\ (msg = "" /\ det # "") => ret[p] = det
         /\ (msg = "" /\ det = "") => (ret[p] = NoErr /\ publicAddr[p] = url)
         /\ ret[p] = NoErr => (msg = "" /\ det = "")

C5_Witness ==
  \E p \in Procs :
    /\ pc[p] = "openDone" /\ GotBody(p)
    /\ DOMAIN lastResp.body.json = JSONKeys
    /\ lastResp.body.json["public_url"] # ""
    /\ ret[p] = lastResp.body.json["msg"]

\* C6: an Open that fails leaves the caller's public address as it was.
C6_FailedOpenKeepsAddress ==
  \A p \in Procs :
    (pc[p] = "openDone" /\ ret[p] # NoErr) => publicAddr[p] = before[p].addr

C6_Witness ==
  \E p \in Procs :
    /\ pc[p] = "openDone" /\ ret[p] # NoErr /\ GotBody(p)
    /\ before[p].addr # ""
    /\ "public_url" \in DOMAIN lastResp.body.json
    /\ lastResp.body.json["public_url"] \notin {"", before[p].addr}
    /\ publicAddr[p] = before[p].addr

\* C7: an Open of a tunnel that is already open (a first Open returned its
\* address) is served from a cache: it sends nothing and returns that address.
C7_ReopenIsCached ==
  \A p \in Procs :
    (before[p].opened /\ before[p].addr # ""
       /\ (InLaunch(p) \/ pc[p] \in {"create", "openDone", "panic"})) =>
      /\ events[p] = <<>>
      /\ pc[p] = "openDone" => (ret[p] = NoErr /\ publicAddr[p] = before[p].addr)

\* C8: a Close of a tunnel that is not open sends no DELETE and returns no error.
C8_CloseUnopenedIsNoop ==
  \A p \in Procs :
    (~before[p].opened /\ pc[p] = "closeDone") =>
      (ret[p] = NoErr /\ ~HasEvent(p, "DELETE"))

\* C9: stopTunnel sends DELETE <WebInterface>/api/tunnels/<name>; it returns
\* nil exactly on status 204, an error carrying the status code on any other
\* status, and the transport's error when the request could not be sent.
C9_DeleteStatus ==
  \A p \in Procs :
    (pc[p] = "closeDone" /\ lastResp.by = p) =>
      /\ events[p] = <<[kind |-> "DELETE",
                        what |-> <<tc.WebInterface \o "/api/tunnels/" \o t[p].Name>>]>>
      /\ lastResp.kind = "status" =>
           /\ ret[p] = NoErr <=> lastResp.status = 204
           /\ lastResp.status # 204 =>
                ret[p] = "stop return an unexpected status code: " \o ToString(lastResp.status)
      /\ lastResp.kind = "failed" => ret[p] = ErrConnRefused

C9_Witness ==
  \E p \in Procs :
    /\ pc[p] = "closeDone" /\ lastResp.by = p
    /\ lastResp.kind = "status" /\ lastResp.status = 200
    /\ ret[p] = "stop return an unexpected status code: 200"

\* C10: after a Close of an open tunnel the caller holds no public address.
C10_CloseClearsAddress ==
  \A p \in Procs :
    (before[p].opened /\ pc[p] = "closeDone") => publicAddr[p] = ""

\* p is inside startTunnel.
InOpen(p) == pc[p] \in {"probe", "resolve", "auth", "spawn", "read", "create"}

\* p's current or last call was a startTunnel that sent its create request
\* and returned nil.
OpenedNow(p) == pc[p] = "openDone" /\ ret[p] = NoErr /\ HasEvent(p, "POST")

\* C11: Open and Close calls on one tunnel name are serialized.  Two Opens
\* of one name never both send the create request and come back with two
\* different public addresses, and no Close sends its DELETE while an Open
\* of that name is in progress.
C11_SameNameSerialized ==
  [][\A p, q \in Procs :
       (p # q /\ t[p].Name = t[q].Name /\ t[p].Name \in TunnelNames) =>
         /\ ~(OpenedNow(p)' /\ OpenedNow(q)' /\ publicAddr'[p] # publicAddr'[q])
         /\ ~(/\ InOpen(p) /\ pc[q] = "delete"
              /\ HasEvent(q, "DELETE")' /\ lastResp'.by = q /\ lastResp'.kind = "status")]_vars

\* What the events of kind `kind` in p's current call carry.
Whats(p, kind) == {events[p][i].what : i \in {j \in 1..Len(events[p]) : events[p][j].kind = kind}}

\* p's current call has left the caller's address and open state as they were.
NothingRetained(p) == publicAddr[p] = before[p].addr /\ opened[p] = before[p].opened

\* C12: when a read of the spawned agent's output reports the end of the
\* stream or an error before the readiness phrase has been recognised, Open
\* returns that I/O error, sends no create request and retains nothing.
C12_ReadFailureFailsOpen ==
  \A p \in Procs :
    HasEvent(p, "read") =>
      /\ pc[p] = "openDone"
      /\ ret[p] \in {ErrEOF, ErrRead}
      /\ \E d \in {"", "phrase"} : Whats(p, "read") = {<<ret[p], d>>}
      /\ ~HasEvent(p, "POST")
      /\ NothingRetained(p)

C12_Witness ==
  \E p \in Procs :
    /\ pc[p] = "openDone" /\ ret[p] = ErrEOF
    /\ Kinds(p) = <<"GET", "resolve", "start", "read">>

\* Both lookups of the binary resolution came back empty.
NothingFound == <<"LookPath", "", "LookupEnv", "">>

\* C13: with Bin unset, the default binary not on PATH and NGROK not set,
\* Open fails with the binary-not-found error before any network call: no
\* health probe and no create request has been attempted.
C13_BinNotFoundBeforeNetwork ==
  \A p \in Procs :
    (tc.Bin = "" /\ Whats(p, "resolve") = {NothingFound}) =>
      /\ pc[p] = "openDone" /\ ret[p] = ErrBinNotFound
      /\ ~HasEvent(p, "GET") /\ ~HasEvent(p, "POST")

\* The response p's finished Open decoded carried a public_url and neither
\* msg nor details.err.
GotOnlyURL(p) ==
  /\ pc[p] = "openDone" /\ GotBody(p)
  /\ DOMAIN lastResp.body.json = {"public_url"}
  /\ lastResp.body.json["public_url"] \in URLs

\* C14: when the create-tunnel response carries a public_url and no error
\* field, Open returns nil and the caller's public address is that very string.
C14_OpenReturnsPublicURL ==
  \A p \in Procs :
    GotOnlyURL(p) =>
      /\ ret[p] = NoErr
      /\ publicAddr[p] = lastResp.body.json["public_url"]

C14_Witness ==
  \E p \in Procs :
    /\ GotOnlyURL(p)
    /\ lastResp.body.json["public_url"] = "https://abc123.example.com"
    /\ publicAddr[p] = "https://abc123.example.com"
    /\ before[p].addr = ""

\* p is inside stopTunnel or back from it.
InClose(p) == pc[p] \in {"delete", "closeDone"}

\* What the calls send and run: requests to the agent's API, lookups, the
\* authtoken run and its exit, the start of the agent, a failed read.  None of
\* them ends a process.
CallKinds == {"GET", "resolve", "run", "exit", "start", "read", "POST", "DELETE"}

\* C15: no operation stops the agent.  Nothing an Open or a Close does ends a
\* process, and a Close does nothing but send the delete request.
C15_NothingStopsAgent ==
  \A p \in Procs :
    /\ \A i \in 1..Len(events[p]) : events[p][i].kind \in CallKinds
    /\ InClose(p) => Kinds(p) \in {<<>>, <<"DELETE">>}

C15_Witness ==
  \E p \in Procs :
    /\ spawned >= 1 /\ before[p].opened
    /\ pc[p] = "closeDone" /\ ret[p] = NoErr /\ Kinds(p) = <<"DELETE">>

\* C16: GetLogLevel returns the LogLevel field of the configuration it is
\* called on, whatever its vhost.
C16_GetLogLevelReturnsLogLevel ==
  got.fn = "GetLogLevel" => got.val = got.c.LogLevel

\* C17: the readiness phrase is found wherever it lies in the agent's output,
\* also when one read delivers its beginning and the next read the rest: once
\* the whole phrase has been delivered, Open has left the loop for the create
\* request; it neither waits on nor fails on a later read.
C17_SplitMarkerFound ==
  \A p \in Procs :
    stream[p].marked => (pc[p] = "create" \/ HasEvent(p, "POST"))

\* The programs p's current call has executed or tried to start.
Executed(p) == {w[1] : w \in Whats(p, "run") \cup Whats(p, "start")}

\* p's current call got as far as the binary resolution and picked `bin`:
\* it is the local ngrokBin while the launch goes on and the only program run.
Picked(p, bin) ==
  /\ InLaunch(p) => ngrokBin[p] = bin
  /\ Executed(p) \subseteq {bin}
  /\ ~(pc[p] = "openDone" /\ ret[p] = ErrBinNotFound)

\* C18: the binary resolution takes tc.Bin as it is when set, with no lookup;
\* otherwise the default name when LookPath finds it; otherwise the value of
\* NGROK when set; otherwise Open fails with the binary-not-found error and
\* nothing is executed.
C18_ResolutionOrder ==
  \A p \in Procs : \A looked \in Whats(p, "resolve") :
    IF tc.Bin # "" THEN looked = <<>> /\ Picked(p, tc.Bin)
    ELSE \/ looked = <<"LookPath", DefaultBin>> /\ Picked(p, DefaultBin)
         \/ /\ Len(looked) = 4
            /\ SubSeq(looked, 1, 3) = <<"LookPath", "", "LookupEnv">>
            /\ looked[4] # ""
            /\ Picked(p, looked[4])
         \/ /\ looked = NothingFound
            /\ pc[p] = "openDone" /\ ret[p] = ErrBinNotFound
            /\ Executed(p) = {}
            /\ ~HasEvent(p, "POST")

C18_Witness ==
  \E p \in Procs :
    /\ tc.Bin = ""
    /\ Whats(p, "resolve") = {<<"LookPath", "", "LookupEnv", "/env/ngrok">>}
    /\ Whats(p, "start") = {StartCmd("/env/ngrok", tc.Region)}
    /\ pc[p] = "read"

\* The places of the events of kind `kind` in p's current call.
Places(p, kind) == {i \in 1..Len(events[p]) : events[p][i].kind = kind}

\* C19: with an auth token configured, a launch runs `<bin> authtoken <token>`
\* exactly once and to its end before the agent is started; when it fails,
\* Open returns its error, and neither starts the agent nor sends the create
\* request nor runs it again.
C19_AuthOnceBeforeSpawn ==
  \A p \in Procs :
    /\ \A i, j \in Places(p, "run") : i = j
    /\ Places(p, "run") # {} => tc.AuthToken # ""
    /\ \A i \in Places(p, "run") :
         /\ events[p][i].what = AuthCmd(events[p][i].what[1], tc.AuthToken)
         /\ Executed(p) = {events[p][i].what[1]}
         /\ Places(p, "exit") = {i + 1}
         /\ \A j \in Places(p, "start") \cup Places(p, "POST") : j > i + 1
    /\ (tc.AuthToken # "" /\ (pc[p] \in {"spawn", "read"} \/ HasEvent(p, "start"))) =>
         Places(p, "run") # {} /\ Whats(p, "exit") = {<<NoErr>>}
    /\ \A i \in Places(p, "exit") :
         events[p][i].what # <<NoErr>> =>
           /\ pc[p] = "openDone" /\ <<ret[p]>> = events[p][i].what
           /\ i = Len(events[p])
           /\ ~HasEvent(p, "start") /\ ~HasEvent(p, "POST")

C19_Witness ==
  \E p \in Procs :
    /\ tc.AuthToken # ""
    /\ Kinds(p) = <<"GET", "resolve", "run", "exit">>
    /\ pc[p] = "openDone" /\ ret[p] = ErrExit

\* The error the event carries, NoErr when it carries none.
Failure(e) ==
  CASE e.kind \in {"exit", "read"}                      -> e.what[1]
    [] e.kind = "resolve" /\ e.what = NothingFound /\ tc.Bin = "" -> ErrBinNotFound
    [] OTHER                                             -> NoErr

\* p's current call is over.
Done(p) == pc[p] \in {"openDone", "closeDone"}

\* C20: nothing is retried.  A call takes each of its steps at most once, an
\* Open sends no DELETE and a Close nothing but one; the first step that fails
\* is the last the call takes, and the call returns that step's error as it is.
C20_NoRetry ==
  \A p \in Procs :
    /\ \A i, j \in 1..Len(events[p]) : events[p][i].kind = events[p][j].kind => i = j
    /\ InOpen(p) \/ pc[p] = "openDone" => ~HasEvent(p, "DELETE")
    /\ InClose(p) => Kinds(p) \in {<<>>, <<"DELETE">>}
    /\ \A i \in 1..Len(events[p]) :
         Failure(events[p][i]) # NoErr =>
           i = Len(events[p]) /\ Done(p) /\ ret[p] = Failure(events[p][i])
    /\ (lastResp.by = p /\ lastResp.kind = "failed") =>
         /\ Done(p) /\ ret[p] = ErrConnRefused
         /\ events[p][Len(events[p])].kind \in {"POST", "DELETE"}
    /\ ret[p] # NoErr => Done(p)

C20_Witness ==
  \E p \in Procs :
    /\ lastResp.by = p /\ lastResp.kind = "failed"
    /\ Kinds(p) = <<"GET", "resolve", "run", "exit", "start", "POST">>
    /\ pc[p] = "openDone" /\ ret[p] = ErrConnRefused

\* C21: the readiness wait has no timeout.  After the start of the agent Open
\* leaves the wait only for the create request, when a read brought the
\* phrase, or for its return, when a read reported the end of the stream or
\* an error; and once the agent's output contains the phrase, Open does leave
\* the wait.
C21_ReadinessWait ==
  /\ [][\A p \in Procs :
         (pc[p] = "read" /\ pc'[p] # "read") =>
           \/ pc'[p] = "create" /\ stream'[p].marked
           \/ pc'[p] = "openDone" /\ HasEvent(p, "read")']_vars
  /\ \A p \in Procs : (pc[p] = "read" /\ stream[p].marked) ~> (pc[p] # "read")

\* p's current call is a startTunnel.
OpenCall(p) == InOpen(p) \/ pc[p] \in {"openDone", "panic"}

\* C22: after an Open that failed during the agent's startup, the caller's next
\* Open starts from scratch: it probes again and, with the control API still
\* not answering, resolves the binary and starts the agent again.
C22_RetryStartsFromScratch ==
  \A p \in Procs :
    (before[p].failed /\ OpenCall(p) /\ pc[p] # "probe") =>
      /\ HasEvent(p, "GET")
      /\ ProbeAnswer(p) # "true" =>
           /\ ProbeAnswer(p) = "false"
           /\ pc[p] # "resolve" => HasEvent(p, "resolve")
           /\ pc[p] = "read" => HasEvent(p, "start")

\* C23: in the readiness loop a read that reports an error always fails Open
\* with that error, also when the bytes of that same read hold the whole
\* phrase: the error is checked before the chunk is scanned, so no create
\* request follows a failed read and nothing is retained.
C23_ErrorBeforeScan ==
  \A p \in Procs :
    \A i \in 1..Len(events[p]) :
      events[p][i].kind = "read" =>
        /\ events[p][i].what[1] \in {ErrEOF, ErrRead}
        /\ i = Len(events[p])
        /\ pc[p] = "openDone"
        /\ ret[p] = events[p][i].what[1]
        /\ publicAddr[p] = before[p].addr

C23_Witness ==
  \E p \in Procs :
    /\ pc[p] = "openDone" /\ ret[p] = ErrRead
    /\ Len(events[p]) > 0
    /\ events[p][Len(events[p])] = Ev("read", <<ErrRead, "phrase">>)

\* p's finished Open received a response to its create request.
Answered(p) == pc[p] = "openDone" /\ lastResp.by = p /\ lastResp.kind = "body"

\* C24: the outcome of create-tunnel depends only on the decoded body, never
\* on the status of the response: whatever the status, a body that decodes
\* with empty msg and empty details.err is a success that stores public_url,
\* a body with msg or details.err fails with that text, and a body that does
\* not decode as JSON fails with the decoder's error.
C24_StatusIgnored ==
  \A p \in Procs :
    Answered(p) =>
      LET o == lastResp.body.json IN
        /\ lastResp.status \in PostStatuses
        /\ ~lastResp.body.decodable =>
             ret[p] = ErrDecode /\ publicAddr[p] = before[p].addr
        /\ (lastResp.body.decodable /\ Field(o, "msg") = "" /\ Field(o, "err") = "") =>
             ret[p] = NoErr /\ publicAddr[p] = Field(o, "public_url")
        /\ (lastResp.body.decodable /\ (Field(o, "msg") # "" \/ Field(o, "err") # "")) =>
             ret[p] \in {Field(o, "msg"), Field(o, "err")} \ {""}

C24_Witness ==
  \E p \in Procs :
    /\ Answered(p) /\ lastResp.status = 502
    /\ lastResp.body.decodable
    /\ lastResp.body.json = [k \in {"public_url"} |-> "https://def456.example.com"]
    /\ ret[p] = NoErr
    /\ publicAddr[p] = "https://def456.example.com"
====
